---- MODULE Spec2Model ----
\* Model of the laminate finder client (src/Client.py): colour ranking
\* (hex_to_rgb, color_distance, find_all_laminates_sorted), pagination
\* (get_next_batch) and the per-turn router (modified_laminate_agent) that
\* works on the Streamlit session state.
\*
\* Representation of Python values
\*   - a str is a sequence of fragments whose concatenation is the text; hex
\*     codes and prompts are written character by character so that
\*     lstrip/startswith/slicing/lower/in act on characters;
\*   - None (where a str is expected) is the value None below;
\*   - a raised exception is the result record Raise, a normal return Ok(v);
\*   - x ** 0.5 is strictly increasing on the integers 0..3*255^2, so a
\*     distance sqrt(n) is represented by its radicand n: min, comparison and
\*     sort order on the radicands are those on the floats.
EXTENDS Integers, Sequences, FiniteSets, TLC

VARIABLES chat_history, last_hexcode, shown_laminates, out, turns, probe

vars == <<chat_history, last_hexcode, shown_laminates, out, turns, probe>>

\* ---------------------------------------------------------------- values

None == <<"<None>">>
Missing == "<missing>"

Ok(v) == [raised |-> FALSE, value |-> v]
Raise == [raised |-> TRUE, value |-> <<>>]

\* dict.get(key, default) on a field that may be missing
Get(v, default) == IF v = Missing THEN default ELSE v

Min2(a, b) == IF a <= b THEN a ELSE b
Max2(a, b) == IF a >= b THEN a ELSE b

\* seq[start:end] for 0 <= start, 0 <= end
Slice(s, start, end) ==
    LET n == Max2(0, Min2(end, Len(s)) - start)
    IN  [i \in 1..n |-> s[start + i]]

\* ---------------------------------------------------------------- ColorSpace

HexChars == {"0", "1", "2", "3", "4", "5", "6", "7", "8", "9",
             "a", "b", "c", "d", "e", "f", "A", "B", "C", "D", "E", "F"}

HexVal(c) ==
    CASE c = "0" -> 0  [] c = "1" -> 1  [] c = "2" -> 2  [] c = "3" -> 3
      [] c = "4" -> 4  [] c = "5" -> 5  [] c = "6" -> 6  [] c = "7" -> 7
      [] c = "8" -> 8  [] c = "9" -> 9
      [] c \in {"a", "A"} -> 10 [] c \in {"b", "B"} -> 11
      [] c \in {"c", "C"} -> 12 [] c \in {"d", "D"} -> 13
      [] c \in {"e", "E"} -> 14 [] c \in {"f", "F"} -> 15

\* int(s, 16) for a slice s of at most two characters
Int16(s) ==
    IF s = <<>> \/ \E i \in 1..Len(s) : s[i] \notin HexChars
    THEN Raise
    ELSE IF Len(s) = 1 THEN Ok(HexVal(s[1]))
         ELSE Ok(16 * HexVal(s[1]) + HexVal(s[2]))

RECURSIVE LStripHash(_)
LStripHash(s) ==
    IF s # <<>> /\ Head(s) = "#" THEN LStripHash(Tail(s)) ELSE s

StartsWithHash(s) == s # <<>> /\ Head(s) = "#"

\* tuple(...) of line 20: raises as soon as one int() raises
RgbTuple(r, g, b) ==
    IF r.raised \/ g.raised \/ b.raised THEN Raise
    ELSE Ok(<<r.value, g.value, b.value>>)

\* line 20 on the stripped string h
ParsePairs(h) ==
    RgbTuple(Int16(Slice(h, 0, 2)), Int16(Slice(h, 2, 4)), Int16(Slice(h, 4, 6)))

hex_to_rgb(hexcode) ==
    IF hexcode = None THEN Raise ELSE ParsePairs(LStripHash(hexcode))

Sq(x) == x * x

color_distance(rgb1, rgb2) ==
    Sq(rgb1[1] - rgb2[1]) + Sq(rgb1[2] - rgb2[2]) + Sq(rgb1[3] - rgb2[3])

\* ---------------------------------------------------------------- CatalogRanker

LinkBase == "https://dummynavigator.centuryply.com/product-details/"

\* the distance to the parsed code rgb put before the distances rest
PrependDistance(input_rgb, rgb, rest) ==
    IF rgb.raised \/ rest.raised THEN Raise
    ELSE Ok(<<color_distance(input_rgb, rgb.value)>> \o rest.value)

\* one element h of the list comprehension of line 37
DistanceOfCode(input_rgb, h, rest) ==
    IF h = None THEN Raise
    ELSE IF ~StartsWithHash(h) THEN rest
    ELSE PrependDistance(input_rgb, hex_to_rgb(h), rest)

\* The list comprehension of line 37: Raise if any element raises
\* (startswith on a non-str, or hex_to_rgb on a '#' code), else the distances
\* of the '#' codes in list order.
RECURSIVE Distances(_, _)
Distances(input_rgb, items) ==
    IF items = <<>> THEN Ok(<<>>)
    ELSE DistanceOfCode(input_rgb, Head(items), Distances(input_rgb, Tail(items)))

\* MinOf, taking the first distance instead of the smallest
MinOfFirst(ds) == ds[1]

RECURSIVE MinOf(_)
MinOf(ds) ==
    IF Len(ds) = 1 THEN ds[1] ELSE Min2(ds[1], MinOf(Tail(ds)))

Skip == [skip |-> TRUE, min_distance |-> 0]

\* ScoreOfDistances that ranks an entry without '#' codes at distance 0
ScoreOfDistancesZero(distances) ==
    IF distances.raised THEN Skip
    ELSE IF distances.value = <<>> THEN [skip |-> FALSE, min_distance |-> 0]
    ELSE [skip |-> FALSE, min_distance |-> MinOf(distances.value)]

\* lines 38-42 on the result of the comprehension
ScoreOfDistances(distances) ==
    IF distances.raised \/ distances.value = <<>> THEN Skip
    ELSE [skip |-> FALSE, min_distance |-> MinOf(distances.value)]

\* lines 33-42 on tex_hex_list
ScoreOfList(input_rgb, tex_hex_list) ==
    IF tex_hex_list.type # "list" \/ tex_hex_list.items = <<>> THEN Skip
    ELSE ScoreOfDistances(Distances(input_rgb, tex_hex_list.items))

\* Lines 32-42 of the loop: the score of a texture, or Skip when one of the
\* three `continue`s before the name test is taken.
Score(input_rgb, texture) ==
    ScoreOfList(input_rgb, IF texture.hexcode.type = "absent"
                           THEN [type |-> "list", items |-> <<>>]
                           ELSE texture.hexcode)

RankedEntry(texture, min_distance) ==
    [name |-> Get(texture.name, ""),
     sku |-> Get(texture.sku, ""),
     link |-> <<LinkBase, Get(texture.id, "None")>>,
     distance |-> min_distance]

RECURSIVE RankLoop(_, _, _, _)

\* RankTexture without the seen_names test
RankTextureNoDedup(input_rgb, rest, ranked, seen_names, texture, s) ==
    IF s.skip
    THEN RankLoop(input_rgb, rest, ranked, seen_names)
    ELSE RankLoop(input_rgb, rest, Append(ranked, RankedEntry(texture, s.min_distance)),
                  seen_names)

\* lines 36-54 for one texture with score s, then the rest of the catalog
RankTexture(input_rgb, rest, ranked, seen_names, texture, s) ==
    IF s.skip \/ Get(texture.name, "") \in seen_names
    THEN RankLoop(input_rgb, rest, ranked, seen_names)
    ELSE RankLoop(input_rgb, rest, Append(ranked, RankedEntry(texture, s.min_distance)),
                  seen_names \cup {Get(texture.name, "")})

\* the loop of lines 31-54
RankLoop(input_rgb, laminate_data, ranked, seen_names) ==
    IF laminate_data = <<>> THEN ranked
    ELSE RankTexture(input_rgb, Tail(laminate_data), ranked, seen_names,
                     Head(laminate_data), Score(input_rgb, Head(laminate_data)))

\* list.sort(key=distance) is stable: x goes after every element already
\* placed whose key is <= its own.
RECURSIVE InsertByDistance(_, _)
RECURSIVE InsertBeforeEqual(_, _)

\* InsertByDistance that puts x before the elements whose key equals its own
InsertBeforeEqual(x, sorted) ==
    IF sorted = <<>> THEN <<x>>
    ELSE IF Head(sorted).distance < x.distance
         THEN <<Head(sorted)>> \o InsertBeforeEqual(x, Tail(sorted))
         ELSE <<x>> \o sorted

InsertByDistance(x, sorted) ==
    IF sorted = <<>> THEN <<x>>
    ELSE IF Head(sorted).distance <= x.distance
         THEN <<Head(sorted)>> \o InsertByDistance(x, Tail(sorted))
         ELSE <<x>> \o sorted

\* SortByDistance without the sort
SortByDistanceNoSort(ranked, acc) == ranked

RECURSIVE SortByDistance(_, _)
SortByDistance(ranked, acc) ==
    IF ranked = <<>> THEN acc
    ELSE SortByDistance(Tail(ranked), InsertByDistance(Head(ranked), acc))

\* lines 28-57 once input_rgb is there
RankAgainst(input_rgb, laminate_data) ==
    IF input_rgb.raised THEN Raise
    ELSE Ok(SortByDistance(RankLoop(input_rgb.value, laminate_data, <<>>, {}), <<>>))

find_all_laminates_sorted(input_hexcode, laminate_data) ==
    RankAgainst(hex_to_rgb(input_hexcode), laminate_data)

\* ---------------------------------------------------------------- PageCursor

EmptyMap == [k \in {} |-> 0]

\* Put that drops the other keys
PutAlone(d, key, value) ==
    [k \in {key} |-> value]

\* d[key] = value on a dict
Put(d, key, value) ==
    [k \in DOMAIN d \cup {key} |-> IF k = key THEN value ELSE d[k]]

\* TakeBatch with the slice taken up to and including end
TakeBatchInclusive(shown, hexcode, batch_size) ==
    [raised |-> FALSE,
     value |-> Slice(shown[hexcode].sorted, shown[hexcode].index,
                     shown[hexcode].index + batch_size + 1),
     shown |-> Put(shown, hexcode, [shown[hexcode] EXCEPT !.index = @ + batch_size])]

\* TakeBatch that starts over once the ranking is exhausted
TakeBatchWrap(shown, hexcode, batch_size) ==
    [raised |-> FALSE,
     value |-> Slice(shown[hexcode].sorted, shown[hexcode].index,
                     shown[hexcode].index + batch_size),
     shown |-> Put(shown, hexcode,
                   [shown[hexcode] EXCEPT
                      !.index = IF @ + batch_size >= Len(shown[hexcode].sorted)
                                THEN 0 ELSE @ + batch_size])]

\* lines 69-73: data = shown[hexcode]; the batch [index, index + batch_size)
\* and the index moved on by batch_size
TakeBatch(shown, hexcode, batch_size) ==
    [raised |-> FALSE,
     value |-> Slice(shown[hexcode].sorted, shown[hexcode].index,
                     shown[hexcode].index + batch_size),
     shown |-> Put(shown, hexcode, [shown[hexcode] EXCEPT !.index = @ + batch_size])]

\* lines 66-73 for a key that has no entry yet
InitPage(shown, hexcode, sorted_laminates, batch_size) ==
    IF sorted_laminates.raised
    THEN [raised |-> TRUE, value |-> <<>>, shown |-> shown]
    ELSE TakeBatch(Put(shown, hexcode, [index |-> 0, sorted |-> sorted_laminates.value]),
                   hexcode, batch_size)

\* get_next_batch that ranks the catalog it is given again on every call
get_next_batch_reranking(shown, hexcode, laminate_data, batch_size) ==
    IF hexcode \notin DOMAIN shown
    THEN InitPage(shown, hexcode, find_all_laminates_sorted(hexcode, laminate_data),
                  batch_size)
    ELSE IF find_all_laminates_sorted(hexcode, laminate_data).raised
    THEN [raised |-> TRUE, value |-> <<>>, shown |-> shown]
    ELSE TakeBatch(Put(shown, hexcode,
                       [shown[hexcode] EXCEPT
                          !.sorted = find_all_laminates_sorted(hexcode, laminate_data).value]),
                   hexcode, batch_size)

\* get_next_batch on the mapping st.session_state["shown_laminates"]; the
\* result carries the mapping as the call leaves it.
get_next_batch(shown, hexcode, laminate_data, batch_size) ==
    IF hexcode \notin DOMAIN shown
    THEN InitPage(shown, hexcode, find_all_laminates_sorted(hexcode, laminate_data),
                  batch_size)
    ELSE TakeBatch(shown, hexcode, batch_size)

\* ---------------------------------------------------------------- strings of the router

UpperCase == <<"A", "B", "C", "D", "E", "F", "G", "H", "I", "J", "K", "L", "M",
               "N", "O", "P", "Q", "R", "S", "T", "U", "V", "W", "X", "Y", "Z">>
LowerCase == <<"a", "b", "c", "d", "e", "f", "g", "h", "i", "j", "k", "l", "m",
               "n", "o", "p", "q", "r", "s", "t", "u", "v", "w", "x", "y", "z">>

LowerChar(c) ==
    IF \E i \in 1..26 : UpperCase[i] = c
    THEN LowerCase[CHOOSE i \in 1..26 : UpperCase[i] = c]
    ELSE c

\* str.lower()
Lower(s) == [i \in 1..Len(s) |-> LowerChar(s[i])]

\* sub in s
Contains(sub, s) ==
    \E i \in 0..(Len(s) - Len(sub)) : Slice(s, i, i + Len(sub)) = sub

OtherOption == <<"o", "t", "h", "e", "r", " ", "o", "p", "t", "i", "o", "n">>
More == <<"m", "o", "r", "e">>

AskMore(user_prompt) ==
    Contains(OtherOption, Lower(user_prompt)) \/ Contains(More, Lower(user_prompt))

\* truth value of a str-or-None
Truthy(h) == h # None /\ h # <<>>

BatchSize == 4

DefaultDescription == <<"Found matching color.">>

HumanMessage(content) == [type |-> "human", content |-> content]
AIMessage(content) == [type |-> "ai", content |-> content]

\* ---------------------------------------------------------------- ConversationRouter

\* What a turn shows and returns: the branch taken, whether agent.ainvoke
\* ran and the kind of reply it gave, the hexcode the turn worked with, the
\* catalog file it read, the returned matchedLaminates (ok) or None (~ok) and
\* the st.error text.
Outcome(user_prompt, file, branch, reply_kind, hexcode, ok, matched, error) ==
    [op |-> "turn", user_prompt |-> user_prompt, file |-> file, branch |-> branch,
     agent_called |-> reply_kind # "none", reply_kind |-> reply_kind, hexcode |-> hexcode,
     ok |-> ok, matchedLaminates |-> matched, error |-> error]

\* the session as a turn leaves it, with what the turn showed
After(history, last, shown, outcome) ==
    [chat_history |-> history, last_hexcode |-> last, shown_laminates |-> shown,
     out |-> outcome]

\* Served that records the exchange only when the batch is not empty
ServedUnlessEmpty(history, last, user_prompt, file, branch, reply_kind, hexcode, response_text, top_matches) ==
    IF top_matches.raised
    THEN After(history, last, top_matches.shown,
               Outcome(user_prompt, file, branch, reply_kind, hexcode, FALSE, <<>>,
                       "Unexpected error"))
    ELSE After(IF top_matches.value = <<>> THEN history
               ELSE history \o <<HumanMessage(user_prompt), AIMessage(response_text)>>,
               last, top_matches.shown,
               Outcome(user_prompt, file, branch, reply_kind, hexcode, TRUE,
                       top_matches.value, ""))

\* Lines 152-181 on the result of get_next_batch: show the batch and record
\* the exchange, or end in the outer except.
Served(history, last, user_prompt, file, branch, reply_kind, hexcode, response_text, top_matches) ==
    IF top_matches.raised
    THEN After(history, last, top_matches.shown,
               Outcome(user_prompt, file, branch, reply_kind, hexcode, FALSE, <<>>,
                       "Unexpected error"))
    ELSE After(history \o <<HumanMessage(user_prompt), AIMessage(response_text)>>,
               last, top_matches.shown,
               Outcome(user_prompt, file, branch, reply_kind, hexcode, TRUE,
                       top_matches.value, ""))

\* Lines 146-178: serve the batch and record the exchange.
ServeBatch(history, last, shown, user_prompt, file, branch, reply_kind, hexcode, response_text) ==
    IF ~Truthy(hexcode)
    THEN After(history, last, shown,
               Outcome(user_prompt, file, branch, reply_kind, hexcode, FALSE, <<>>,
                       "Hexcode not found."))
    ELSE Served(history, last, user_prompt, file, branch, reply_kind, hexcode,
                response_text, get_next_batch(shown, hexcode, file.data, BatchSize))

\* Recorded that keeps the PageState a colour already has
RecordedReusingPage(history, shown, user_prompt, file, hexcode, response_text, sorted) ==
    IF sorted.raised
    THEN After(history, hexcode, shown,
               Outcome(user_prompt, file, "resolution", "object", hexcode, FALSE, <<>>,
                       "Unexpected error"))
    ELSE ServeBatch(history, hexcode, shown,
                    user_prompt, file, "resolution", "object", hexcode, response_text)

\* Lines 140-151 with sorted the value of find_all_laminates_sorted(hexcode,
\* laminate_data) of line 143: last_hexcode is written first, the PageState
\* only if the ranking did not raise.
Recorded(history, shown, user_prompt, file, hexcode, response_text, sorted) ==
    IF sorted.raised
    THEN After(history, hexcode, shown,
               Outcome(user_prompt, file, "resolution", "object", hexcode, FALSE, <<>>,
                       "Unexpected error"))
    ELSE ServeBatch(history, hexcode,
                    Put(shown, hexcode, [index |-> 0, sorted |-> sorted.value]),
                    user_prompt, file, "resolution", "object", hexcode, response_text)

\* Resolve that forgets the last colour when the reply is not JSON
ResolveForgetting(history, last, shown, user_prompt, file, reply) ==
    CASE reply.kind = "raise" ->
           After(history, last, shown,
                 Outcome(user_prompt, file, "resolution", "raise", None, FALSE, <<>>,
                         "Unexpected error"))
      [] reply.kind = "notjson" ->
           After(history, None, shown,
                 Outcome(user_prompt, file, "resolution", "notjson", None, FALSE, <<>>,
                         "Error: Invalid JSON from agent."))
      [] reply.kind = "nonobject" ->
           After(history, last, shown,
                 Outcome(user_prompt, file, "resolution", "nonobject", None, FALSE, <<>>,
                         "Unexpected error"))
      [] reply.kind = "object" ->
           Recorded(history, shown, user_prompt, file, reply.hexcode,
                    IF reply.description = None
                    THEN DefaultDescription ELSE reply.description,
                    find_all_laminates_sorted(reply.hexcode, file.data))

\* Lines 101-144: ask the agent, parse its reply, record the colour.
Resolve(history, last, shown, user_prompt, file, reply) ==
    CASE reply.kind = "raise" ->
           After(history, last, shown,
                 Outcome(user_prompt, file, "resolution", "raise", None, FALSE, <<>>,
                         "Unexpected error"))
      [] reply.kind = "notjson" ->
           After(history, last, shown,
                 Outcome(user_prompt, file, "resolution", "notjson", None, FALSE, <<>>,
                         "Error: Invalid JSON from agent."))
      [] reply.kind = "nonobject" ->
           After(history, last, shown,
                 Outcome(user_prompt, file, "resolution", "nonobject", None, FALSE, <<>>,
                         "Unexpected error"))
      [] reply.kind = "object" ->
           Recorded(history, shown, user_prompt, file, reply.hexcode,
                    IF reply.description = None
                    THEN DefaultDescription ELSE reply.description,
                    find_all_laminates_sorted(reply.hexcode, file.data))

\* modified_laminate_agent(user_prompt) with the content of laminates.json
\* and the agent's reply as the turn's inputs.
modified_laminate_agent(history, last, shown, user_prompt, file, reply) ==
    IF ~file.readable
    THEN After(history, last, shown,
               Outcome(user_prompt, file, "none", "none", None, FALSE, <<>>,
                       "Unexpected error"))
    ELSE IF AskMore(user_prompt) /\ Truthy(last)
    THEN ServeBatch(history, last, shown, user_prompt, file, "continuation", "none", last,
                    <<"Showing more options for color ">> \o last \o <<".">>)
    ELSE Resolve(history, last, shown, user_prompt, file, reply)

\* ---------------------------------------------------------------- inputs

C000000 == <<"#", "0", "0", "0", "0", "0", "0">>
C000010 == <<"#", "0", "0", "0", "0", "1", "0">>
C0000FF == <<"#", "0", "0", "0", "0", "F", "F">>
c0000ff == <<"#", "0", "0", "0", "0", "f", "f">>
CFFFFFF == <<"#", "F", "F", "F", "F", "F", "F">>
CGGGGGG == <<"#", "G", "G", "G", "G", "G", "G">>
N000000 == <<"0", "0", "0", "0", "0", "0">>

Tex(id, name, sku, items) ==
    [id |-> id, name |-> name, sku |-> sku, hexcode |-> [type |-> "list", items |-> items]]

T1 == Tex("1", "A", "S1", <<C000010>>)
T2 == Tex("2", "B", "S2", <<C000000>>)
T3 == Tex("3", "A", "S3", <<CFFFFFF>>)
T4 == [id |-> "4", name |-> "A", sku |-> "S4", hexcode |-> [type |-> "absent", items |-> <<>>]]
T5 == Tex("5", "C", "S5", <<CFFFFFF, N000000>>)
T6 == Tex("6", "D", "S6", <<CGGGGGG, C000000>>)
T7 == Tex("7", "E", "S7", <<C0000FF, C000010>>)
T8 == Tex("8", Missing, "S8", <<C000010>>)
T9 == [id |-> "9", name |-> "B", sku |-> Missing, hexcode |-> [type |-> "str", items |-> <<>>]]
T10 == Tex(Missing, "C", "S10", <<>>)
T11 == Tex("11", "E", "S11", <<None, C000000>>)
T12 == Tex("12", "B", "S12", <<N000000>>)
T13 == Tex("13", "D", "S13", <<>>)

Textures == {T1, T2, T3, T4, T5, T6, T7, T8, T9, T10, T11, T12, T13}

SeqsUpTo(S, n) == UNION {[1..k -> S] : k \in 0..n}

\* laminates.json as a turn finds it
Unreadable == [readable |-> FALSE, data |-> <<>>]
File(data) == [readable |-> TRUE, data |-> data]

CatalogA == <<T1, T2, T3, T5, T7, T8>>
CatalogB == <<T7, T2>>

LaminateFiles == {Unreadable, File(CatalogA), File(CatalogB)}

PRed == <<"r", "e", "d">>
PMore == <<"M", "O", "R", "E">>
POther == <<"O", "t", "h", "e", "r", " ", "o", "p", "t", "i", "o", "n", "s">>

Prompts == {PRed, PMore, POther}

Description == <<"A deep colour.">>

AgentHexcodes == {None, <<>>, C000000, C0000FF, c0000ff, CGGGGGG}

Reply(kind, hexcode, description) ==
    [kind |-> kind, hexcode |-> hexcode, description |-> description]

\* what agent.ainvoke can do: raise, answer text that is not JSON, answer JSON
\* that is not an object, answer an object (None: the key is not there)
AgentReplies ==
    {Reply(k, None, None) : k \in {"raise", "notjson", "nonobject"}}
    \cup {Reply("object", h, None) : h \in AgentHexcodes}
    \cup {Reply("object", C000000, Description)}

MaxTurns == 3

\* ---------------------------------------------------------------- session

NoOutcome == [op |-> "init"]
NoProbe == [spec |-> "session"]

Init ==
    /\ chat_history = <<>>
    /\ last_hexcode = None
    /\ shown_laminates = EmptyMap
    /\ out = NoOutcome
    /\ turns = 0
    /\ probe = NoProbe

\* Submit with a non-blank prompt (lines 209-227)
Submit(user_prompt, file, reply) ==
    /\ turns < MaxTurns
    /\ \E r \in {modified_laminate_agent(chat_history, last_hexcode, shown_laminates,
                                         user_prompt, file, reply)} :
           /\ chat_history' = r.chat_history
           /\ last_hexcode' = r.last_hexcode
           /\ shown_laminates' = r.shown_laminates
           /\ out' = r.out
    /\ turns' = turns + 1
    /\ UNCHANGED probe

\* ResetSession that leaves the pages mapping as it is
ResetSessionKeepingPages ==
    /\ chat_history' = <<>>
    /\ last_hexcode' = None
    /\ out' = [op |-> "reset"]
    /\ UNCHANGED <<shown_laminates, turns, probe>>

\* the Reset Session button (lines 193-197)
ResetSession ==
    /\ chat_history' = <<>>
    /\ last_hexcode' = None
    /\ shown_laminates' = EmptyMap
    /\ out' = [op |-> "reset"]
    /\ UNCHANGED <<turns, probe>>

Next ==
    \/ \E user_prompt \in Prompts, file \in LaminateFiles, reply \in AgentReplies :
           Submit(user_prompt, file, reply)
    \/ ResetSession

Spec == Init /\ [][Next]_vars

\* ---------------------------------------------------------------- ranking alone

MaxCatalogLen == 3

RankTargets == {C000000, C0000FF, CGGGGGG}

InitRank ==
    /\ chat_history = <<>>
    /\ last_hexcode = None
    /\ shown_laminates = EmptyMap
    /\ out = NoOutcome
    /\ turns = 0
    /\ probe \in {[spec |-> "rank", input_hexcode |-> h, laminate_data |-> c,
                   called |-> FALSE, result |-> Raise] :
                  h \in RankTargets, c \in SeqsUpTo(Textures, MaxCatalogLen)}

\* one call find_all_laminates_sorted(input_hexcode, laminate_data)
Rank ==
    /\ ~probe.called
    /\ probe' = [probe EXCEPT !.called = TRUE,
                              !.result = find_all_laminates_sorted(probe.input_hexcode,
                                                                   probe.laminate_data)]
    /\ UNCHANGED <<chat_history, last_hexcode, shown_laminates, out, turns>>

NextRank == Rank

SpecRank == InitRank /\ [][NextRank]_vars

\* ---------------------------------------------------------------- pagination alone

MaxBatchSize == 3
MaxCalls == 7

BatchCatalogs == {Slice(CatalogA, 0, n) : n \in 0..Len(CatalogA)} \cup {CatalogB}

InitBatch ==
    /\ chat_history = <<>>
    /\ last_hexcode = None
    /\ shown_laminates = EmptyMap
    /\ out = NoOutcome
    /\ turns = 0
    /\ probe \in {[spec |-> "batch", hexcode |-> h, laminate_data |-> c, batch_size |-> b,
                   batches |-> <<>>, raised |-> 0] :
                  h \in RankTargets, c \in BatchCatalogs, b \in 1..MaxBatchSize}

\* one call get_next_batch(hexcode, laminate_data, batch_size) on the session
NextBatchCall ==
    /\ Len(probe.batches) + probe.raised < MaxCalls
    /\ \E r \in {get_next_batch(shown_laminates, probe.hexcode, probe.laminate_data,
                                probe.batch_size)} :
           /\ shown_laminates' = r.shown
           /\ probe' = IF r.raised
                       THEN [probe EXCEPT !.raised = @ + 1]
                       ELSE [probe EXCEPT !.batches = Append(@, r.value)]
    /\ UNCHANGED <<chat_history, last_hexcode, out, turns>>

NextBatch == NextBatchCall

SpecBatch == InitBatch /\ [][NextBatch]_vars

\* ================================================================ properties

Range(f) == {f[i] : i \in DOMAIN f}

RECURSIVE Concat(_)
Concat(ss) == IF ss = <<>> THEN <<>> ELSE Head(ss) \o Concat(Tail(ss))

CeilDiv(n, b) == (n + b - 1) \div b

\* None and "" both stand for "no colour recorded"
SameColorKey(a, b) == a = b \/ (~Truthy(a) /\ ~Truthy(b))

SessionUnchanged ==
    /\ chat_history' = chat_history
    /\ SameColorKey(last_hexcode, last_hexcode')
    /\ shown_laminates' = shown_laminates

IsTurn == turns' = turns + 1

\* ---------------------------------------------------------------- C1 (SpecBatch)

Paged == probe.hexcode \in DOMAIN shown_laminates

\* C1: k successive get_next_batch calls on one key with batch size b return
\* batches whose concatenation is the first min(N, k*b) entries of the stored
\* ranking (all of it from call ceil(N/b) on); call i returns a non-empty
\* batch exactly when i <= ceil(N/b); no call raises.
C1_PaginationExhaustive ==
    Paged =>
        LET ranking == shown_laminates[probe.hexcode].sorted
            N == Len(ranking)
            b == probe.batch_size
            k == Len(probe.batches)
        IN  /\ probe.raised = 0
            /\ shown_laminates[probe.hexcode].index = k * b
            /\ Concat(probe.batches) = Slice(ranking, 0, k * b)
            /\ k >= CeilDiv(N, b) => Concat(probe.batches) = ranking
            /\ \A i \in 1..k : (probe.batches[i] # <<>>) <=> (i <= CeilDiv(N, b))
            /\ \A i \in 1..k : Len(probe.batches[i]) <= b

\* five entries served two at a time: 2, 2, 1, then an empty batch
C1_Witness ==
    /\ Paged
    /\ probe.batch_size = 2
    /\ Len(shown_laminates[probe.hexcode].sorted) = 5
    /\ Len(probe.batches) = 4
    /\ Len(probe.batches[3]) = 1
    /\ probe.batches[4] = <<>>

\* ---------------------------------------------------------------- C2..C7 (Spec)

\* C2: a turn that ends in a failure leaves history, lastColorKey and the
\* pages mapping as they were before the turn.
C2_FailedTurnChangesNothing ==
    [][(IsTurn /\ ~out'.ok) => SessionUnchanged]_vars

\* C3: a resolution turn whose reply is a JSON object without a (non-empty)
\* hexcode fails and leaves lastColorKey, the pages mapping and history alone.
C3_MissingHexcodeChangesNothing ==
    [][(IsTurn /\ out'.reply_kind = "object" /\ ~Truthy(out'.hexcode))
         => (~out'.ok /\ SessionUnchanged)]_vars

\* C4: a turn whose phrase has a trigger while lastColorKey is set (and whose
\* catalog loads) does not invoke the agent, targets lastColorKey and serves
\* the batch from the PageState that key already has, from its nextIndex on,
\* leaving the stored ranking as it was.
C4_ContinuationServesExistingPage ==
    [][(IsTurn /\ AskMore(out'.user_prompt) /\ Truthy(last_hexcode) /\ out'.file.readable)
         => /\ ~out'.agent_called
            /\ out'.hexcode = last_hexcode
            /\ last_hexcode \in DOMAIN shown_laminates
            /\ out'.ok
            /\ out'.matchedLaminates =
                   Slice(shown_laminates[last_hexcode].sorted,
                         shown_laminates[last_hexcode].index,
                         shown_laminates[last_hexcode].index + BatchSize)
            /\ shown_laminates'[last_hexcode].sorted = shown_laminates[last_hexcode].sorted
            /\ shown_laminates'[last_hexcode].index =
                   shown_laminates[last_hexcode].index + BatchSize]_vars

\* C5 as stated: nextIndex of a colour key never decreases from one session
\* state to the next (a reset removes the key).
C5_IndexNeverDecreases ==
    [][\A k \in DOMAIN shown_laminates \cap DOMAIN shown_laminates' :
           shown_laminates'[k].index >= shown_laminates[k].index]_vars

\* C5 amended: nextIndex of a colour key decreases only in a successful
\* resolution turn for that key, which leaves it at the batch size; every
\* other turn leaves it as it was or advances it by the batch size, and a key
\* leaves the mapping only by reset.
C5_IndexDecreasesOnlyOnResolution ==
    [][/\ \A k \in DOMAIN shown_laminates \cap DOMAIN shown_laminates' :
              \/ shown_laminates'[k].index = shown_laminates[k].index
              \/ shown_laminates'[k].index = shown_laminates[k].index + BatchSize
              \/ /\ out'.ok /\ out'.branch = "resolution" /\ out'.hexcode = k
                 /\ shown_laminates'[k].index = BatchSize
       /\ (DOMAIN shown_laminates \subseteq DOMAIN shown_laminates') \/ out'.op = "reset"
      ]_vars

\* a continuation turn has advanced a key past its second page
C5_Witness ==
    /\ out.op = "turn" /\ out.ok /\ out.branch = "continuation"
    /\ shown_laminates[out.hexcode].index >= 2 * BatchSize

\* C6: after a successful resolution turn for colour c, the PageState of c
\* holds the ranking of c against the catalog of this turn, the returned batch
\* is ranking[0 .. batchSize) and nextIndex of c is batchSize.
C6_ResolutionRestartsPagination ==
    (out.op = "turn" /\ out.ok /\ out.branch = "resolution") =>
        LET c == out.hexcode
            fresh == find_all_laminates_sorted(c, out.file.data)
        IN  /\ c \in DOMAIN shown_laminates
            /\ ~fresh.raised
            /\ shown_laminates[c].sorted = fresh.value
            /\ out.matchedLaminates = Slice(fresh.value, 0, BatchSize)
            /\ shown_laminates[c].index = BatchSize

\* c resolved, paged on by a continuation turn, then resolved again
C6_Witness ==
    /\ out.op = "turn" /\ out.ok /\ out.branch = "resolution"
    /\ Len(chat_history) = 6
    /\ chat_history[4].content = <<"Showing more options for color ">> \o out.hexcode \o <<".">>
    /\ Len(shown_laminates[out.hexcode].sorted) > BatchSize

\* C7: lastColorKey changes only in a turn in which the agent resolved a
\* colour, to that colour; a continuation turn leaves it unchanged and a
\* successful resolution turn leaves it equal to the colour resolved.
C7_LastColorChangesOnlyOnResolution ==
    [][IsTurn =>
         /\ out'.branch = "continuation" => last_hexcode' = last_hexcode
         /\ (out'.ok /\ out'.branch = "resolution") => last_hexcode' = out'.hexcode
         /\ ~SameColorKey(last_hexcode, last_hexcode')
              => (out'.agent_called /\ Truthy(out'.hexcode) /\ last_hexcode' = out'.hexcode)
      ]_vars

\* ---------------------------------------------------------------- C8..C10 (SpecRank)

RankDone == probe.called /\ ~probe.result.raised
Ranking == probe.result.value
Catalog == probe.laminate_data

NameOf(texture) == Get(texture.name, "")

\* the ranked entry r carries the name, sku and link of texture
MadeFrom(r, texture) ==
    /\ r.name = NameOf(texture)
    /\ r.sku = Get(texture.sku, "")
    /\ r.link = <<LinkBase, Get(texture.id, "None")>>

NoTwoWithSameName ==
    \A i, j \in DOMAIN Ranking : Ranking[i].name = Ranking[j].name => i = j

\* the '#' codes of a texture (the codes the ranking measures)
SharpCodes(texture) ==
    {h \in Range(texture.hexcode.items) : h # None /\ StartsWithHash(h)}

\* every code of a texture that hex_to_rgb reads as a colour
HexColors(texture) ==
    {h \in Range(texture.hexcode.items) : h # None /\ ~hex_to_rgb(h).raised}

\* the texture is not passed over for its hexcode field: a list, of str only,
\* with a '#' code, all of whose '#' codes parse
HasUsableHex(texture) ==
    /\ texture.hexcode.type = "list"
    /\ None \notin Range(texture.hexcode.items)
    /\ SharpCodes(texture) # {}
    /\ \A h \in SharpCodes(texture) : ~hex_to_rgb(h).raised

FirstOccurrence(name) ==
    CHOOSE i \in DOMAIN Catalog :
        /\ NameOf(Catalog[i]) = name
        /\ \A j \in 1..(i - 1) : NameOf(Catalog[j]) # name

FirstUsableOccurrence(name) ==
    CHOOSE i \in DOMAIN Catalog :
        /\ NameOf(Catalog[i]) = name /\ HasUsableHex(Catalog[i])
        /\ \A j \in 1..(i - 1) : ~(NameOf(Catalog[j]) = name /\ HasUsableHex(Catalog[j]))

\* C8 as stated: no two ranked entries share a name, and the entry ranked
\* under a name is made from the first catalog entry with that name.
C8_FirstOccurrenceKept ==
    RankDone =>
        /\ NoTwoWithSameName
        /\ \A i \in DOMAIN Ranking :
               MadeFrom(Ranking[i], Catalog[FirstOccurrence(Ranking[i].name)])

\* C8 amended: no two ranked entries share a name; a name is ranked exactly
\* when some catalog entry with that name has a usable hexcode list, and the
\* entry ranked under it is made from the first such catalog entry.
C8_FirstUsableOccurrenceKept ==
    RankDone =>
        /\ NoTwoWithSameName
        /\ \A i \in DOMAIN Ranking :
               /\ \E j \in DOMAIN Catalog :
                      NameOf(Catalog[j]) = Ranking[i].name /\ HasUsableHex(Catalog[j])
               /\ MadeFrom(Ranking[i], Catalog[FirstUsableOccurrence(Ranking[i].name)])
        /\ \A j \in DOMAIN Catalog :
               HasUsableHex(Catalog[j])
                   => \E i \in DOMAIN Ranking : Ranking[i].name = NameOf(Catalog[j])

\* two usable entries named "A", the later one nearer to the target: the
\* earlier one is the one ranked
C8_Witness ==
    /\ RankDone
    /\ probe.input_hexcode = C000000
    /\ Catalog = <<T3, T1, T2>>
    /\ Len(Ranking) = 2
    /\ MadeFrom(Ranking[2], T3)

\* C9: the ranking is in non-decreasing order of distance.
C9_SortedByDistance ==
    RankDone =>
        \A i, j \in DOMAIN Ranking : i < j => Ranking[i].distance <= Ranking[j].distance

\* three entries ranked in the reverse of their catalog order
C9_Witness ==
    /\ RankDone
    /\ Len(Catalog) = 3 /\ Len(Ranking) = 3
    /\ MadeFrom(Ranking[1], Catalog[3])
    /\ MadeFrom(Ranking[3], Catalog[1])
    /\ Ranking[1].distance < Ranking[2].distance
    /\ Ranking[2].distance < Ranking[3].distance

TextureOf(r) == CHOOSE texture \in Range(Catalog) : MadeFrom(r, texture)

DistancesTo(codes) ==
    {color_distance(hex_to_rgb(probe.input_hexcode).value, hex_to_rgb(h).value) : h \in codes}

IsMinimumOf(d, S) == d \in S /\ \A x \in S : d <= x

\* C10 as stated: the distance of a ranked entry is the minimum over every
\* hex colour listed for its catalog entry.
C10_MinOverAllHexColors ==
    RankDone =>
        \A i \in DOMAIN Ranking :
            IsMinimumOf(Ranking[i].distance, DistancesTo(HexColors(TextureOf(Ranking[i]))))

\* C10 amended: the distance of a ranked entry is the minimum over the codes
\* of its catalog entry that begin with '#'.
C10_MinOverSharpCodes ==
    RankDone =>
        \A i \in DOMAIN Ranking :
            IsMinimumOf(Ranking[i].distance, DistancesTo(SharpCodes(TextureOf(Ranking[i]))))

\* an entry ranked by its second code, which is nearer than its first
C10_Witness ==
    /\ RankDone
    /\ \E i \in DOMAIN Ranking :
           LET items == TextureOf(Ranking[i]).hexcode.items
           IN  /\ Len(items) = 2
               /\ SharpCodes(TextureOf(Ranking[i])) = Range(items)
               /\ Ranking[i].distance < color_distance(hex_to_rgb(probe.input_hexcode).value,
                                                       hex_to_rgb(items[1]).value)

\* ---------------------------------------------------------------- C11, C12 (SpecRank)

\* the '#' codes of a texture that hex_to_rgb reads as a colour
ParseableSharpCodes(texture) ==
    {h \in SharpCodes(texture) : ~hex_to_rgb(h).raised}

\* a list of str with at least one '#' code that parses
HasParseableCode(texture) ==
    /\ texture.hexcode.type = "list"
    /\ None \notin Range(texture.hexcode.items)
    /\ ParseableSharpCodes(texture) # {}

\* C11: malformed codes are skipped one by one: the first catalog entry of a
\* name that has a '#' code that parses is ranked, also when another of its
\* '#' codes does not parse, with the minimum distance over the codes that parse.
C11_MalformedCodeSkippedPerCode ==
    RankDone =>
        \A j \in DOMAIN Catalog :
            (/\ HasParseableCode(Catalog[j])
             /\ \A k \in 1..(j - 1) : ~(NameOf(Catalog[k]) = NameOf(Catalog[j])
                                        /\ HasParseableCode(Catalog[k])))
            => \E i \in DOMAIN Ranking :
                   /\ MadeFrom(Ranking[i], Catalog[j])
                   /\ IsMinimumOf(Ranking[i].distance,
                                  DistancesTo(ParseableSharpCodes(Catalog[j])))

\* hexcode absent, not a list, an empty list, or without an element that
\* starts with '#'
LacksHexColor(texture) ==
    \/ texture.hexcode.type # "list"
    \/ texture.hexcode.items = <<>>
    \/ SharpCodes(texture) = {}

WithoutLacking == SelectSeq(Catalog, LAMBDA texture : ~LacksHexColor(texture))

\* C12: a catalog entry that lacks a hex colour is in no ranking, and the
\* ranking is the one the catalog gives without such entries.
C12_EntriesWithoutHexColorExcluded ==
    RankDone =>
        /\ \A j \in DOMAIN Catalog :
               LacksHexColor(Catalog[j])
                   => \A i \in DOMAIN Ranking : ~MadeFrom(Ranking[i], Catalog[j])
        /\ Ranking = find_all_laminates_sorted(probe.input_hexcode, WithoutLacking).value

\* an entry without '#' code comes first and shares its name with a ranked one
C12_Witness ==
    /\ RankDone
    /\ Len(Catalog) = 3
    /\ LacksHexColor(Catalog[1])
    /\ SharpCodes(Catalog[1]) = {} /\ Catalog[1].hexcode.items # <<>>
    /\ NameOf(Catalog[1]) = NameOf(Catalog[2])
    /\ Len(Ranking) = 2

\* ---------------------------------------------------------------- C13..C15 (Spec)

\* C13: the pages mapping never holds two keys that differ only in letter
\* case (so two resolutions whose hexcodes differ only in case share one
\* PageState and one lastColorKey value).
C13_ColorKeysCanonicalInCase ==
    \A k1, k2 \in DOMAIN shown_laminates : Lower(k1) = Lower(k2) => k1 = k2

\* C14: a reset leaves history empty, lastColorKey unset and the pages
\* mapping empty, whatever the session held; the turn that follows a reset
\* goes to the resolution branch also for a 'more' phrase, and when it
\* succeeds its colour is the only key, served from index 0, and its exchange
\* is the whole history.
C14_ResetClearsSession ==
    [][/\ out'.op = "reset"
          => (chat_history' = <<>> /\ last_hexcode' = None
              /\ shown_laminates' = EmptyMap)
       /\ (IsTurn /\ out.op = "reset")
          => /\ out'.branch # "continuation"
             /\ out'.file.readable => (out'.branch = "resolution" /\ out'.agent_called)
             /\ out'.ok
                => /\ DOMAIN shown_laminates' = {out'.hexcode}
                   /\ shown_laminates'[out'.hexcode].index = BatchSize
                   /\ out'.matchedLaminates =
                          Slice(shown_laminates'[out'.hexcode].sorted, 0, BatchSize)
                   /\ Len(chat_history') = 2
      ]_vars

\* a reset taken after two turns
C14_Witness ==
    /\ out.op = "reset"
    /\ turns >= 2

\* the descriptionText a successful turn can record: the fixed sentence of a
\* continuation, or the agent's description or its default in a resolution
DescriptionTexts(outcome) ==
    IF outcome.branch = "continuation"
    THEN {<<"Showing more options for color ">> \o outcome.hexcode \o <<".">>}
    ELSE {DefaultDescription, Description}

\* C15: a successful turn, continuation or resolution, with a batch or with
\* an empty one, leaves history as it was plus exactly (user, phrase) and
\* then (agent, descriptionText), and it is a turn whose batch was served
\* (the page of its colour stands one batch further); no turn removes or
\* reorders an item of history.
C15_SuccessAppendsExchange ==
    [][IsTurn
       => /\ Len(chat_history') >= Len(chat_history)
          /\ SubSeq(chat_history', 1, Len(chat_history)) = chat_history
          /\ out'.ok
             => /\ \E text \in DescriptionTexts(out') :
                      chat_history' = chat_history
                          \o <<HumanMessage(out'.user_prompt), AIMessage(text)>>
                /\ out'.hexcode \in DOMAIN shown_laminates'
                /\ out'.matchedLaminates =
                       Slice(shown_laminates'[out'.hexcode].sorted,
                             shown_laminates'[out'.hexcode].index - BatchSize,
                             shown_laminates'[out'.hexcode].index)
      ]_vars

\* a successful continuation with an empty batch, recorded after earlier
\* exchanges
C15_Witness ==
    /\ out.op = "turn"
    /\ out.ok
    /\ out.branch = "continuation"
    /\ out.matchedLaminates = <<>>
    /\ Len(chat_history) >= 4
    /\ chat_history[Len(chat_history) - 1] = HumanMessage(out.user_prompt)
    /\ chat_history[Len(chat_history)].type = "ai"

\* ---------------------------------------------------------------- C16 (SpecRank)

\* C16: of two ranked entries at the same distance, the one made from the
\* earlier catalog entry comes first; with C9 this makes the ranking the one
\* sequence ordered by (distance, catalog position).
C16_TiesInCatalogOrder ==
    RankDone =>
        \A i, j \in DOMAIN Ranking :
            (i < j /\ Ranking[i].distance = Ranking[j].distance)
                => FirstUsableOccurrence(Ranking[i].name)
                       < FirstUsableOccurrence(Ranking[j].name)

\* two entries tied behind a nearer one that the catalog lists last
C16_Witness ==
    /\ RankDone
    /\ Len(Catalog) = 3 /\ Len(Ranking) = 3
    /\ MadeFrom(Ranking[1], Catalog[3])
    /\ MadeFrom(Ranking[2], Catalog[1])
    /\ MadeFrom(Ranking[3], Catalog[2])
    /\ Ranking[1].distance < Ranking[2].distance
    /\ Ranking[2].distance = Ranking[3].distance

\* ---------------------------------------------------------------- C17..C20 (Spec)

\* C17: the ranking stored for a colour key stays as it is through every
\* step that is not a reset, except a resolution of that very key, which
\* stores the ranking of the catalog of its turn; a continuation leaves every
\* stored ranking as it is, whatever catalog the turn read.
C17_PagesServedWithoutReranking ==
    [][/\ \A k \in DOMAIN shown_laminates :
             \/ out'.op = "reset"
             \/ /\ k \in DOMAIN shown_laminates'
                /\ shown_laminates'[k].sorted = shown_laminates[k].sorted
             \/ /\ IsTurn
                /\ out'.branch = "resolution"
                /\ out'.hexcode = k
                /\ k \in DOMAIN shown_laminates'
                /\ shown_laminates'[k].sorted
                       = find_all_laminates_sorted(k, out'.file.data).value
       /\ (IsTurn /\ out'.branch = "continuation")
              => \A k \in DOMAIN shown_laminates :
                     /\ k \in DOMAIN shown_laminates'
                     /\ shown_laminates'[k].sorted = shown_laminates[k].sorted
      ]_vars

\* a continuation that served a page of a ranking computed from another
\* catalog than the one its turn read
C17_Witness ==
    /\ out.op = "turn"
    /\ out.ok
    /\ out.branch = "continuation"
    /\ out.matchedLaminates # <<>>
    /\ out.hexcode \in DOMAIN shown_laminates
    /\ ~find_all_laminates_sorted(out.hexcode, out.file.data).raised
    /\ shown_laminates[out.hexcode].sorted
           # find_all_laminates_sorted(out.hexcode, out.file.data).value

\* C18: a turn whose agent reply is not valid JSON is a resolution turn that
\* ends with the invalid-JSON error and no matches, and leaves history,
\* lastColorKey and the pages mapping (so every index: no batch was taken)
\* as they were.
C18_InvalidJsonChangesNothing ==
    [][(IsTurn /\ out'.reply_kind = "notjson")
       => /\ out'.branch = "resolution"
          /\ ~out'.ok
          /\ out'.matchedLaminates = <<>>
          /\ out'.error = "Error: Invalid JSON from agent."
          /\ UNCHANGED <<chat_history, last_hexcode, shown_laminates>>
      ]_vars

\* a reply that is not JSON, received in a session that has a last colour,
\* a page and a history
C18_Witness ==
    /\ out.op = "turn"
    /\ out.reply_kind = "notjson"
    /\ Truthy(last_hexcode)
    /\ last_hexcode \in DOMAIN shown_laminates
    /\ chat_history # <<>>

\* C19: whenever lastColorKey is set, the pages mapping has a PageState for
\* it.
C19_LastColorHasPageState ==
    Truthy(last_hexcode) => last_hexcode \in DOMAIN shown_laminates

\* C20: a turn leaves the PageState (ranking and index) of every colour key
\* other than the one it worked with as it was, and adds no key but that
\* one.
C20_OtherPageStatesUnchanged ==
    [][IsTurn
       => /\ \A k \in DOMAIN shown_laminates :
                 k # out'.hexcode
                     => /\ k \in DOMAIN shown_laminates'
                        /\ shown_laminates'[k] = shown_laminates[k]
          /\ DOMAIN shown_laminates' \subseteq DOMAIN shown_laminates \cup {out'.hexcode}
      ]_vars

\* a colour paged through twice, then another colour resolved: the first
\* still stands two batches in, the second one batch in
C20_Witness ==
    /\ out.op = "turn"
    /\ out.ok
    /\ out.hexcode \in DOMAIN shown_laminates
    /\ shown_laminates[out.hexcode].index = BatchSize
    /\ \E k \in DOMAIN shown_laminates :
           /\ k # out.hexcode
           /\ shown_laminates[k].index = 2 * BatchSize

\* ---------------------------------------------------------------- C21 (SpecRank)

\* C21: when the catalog entries that come first under a name have no usable
\* hex colour (no '#' code that parses), the first entry under that name
\* that has one is ranked: the name is not lost to the skipped entries.
C21_NameKeptByFirstWithUsableColor ==
    RankDone =>
        \A j \in DOMAIN Catalog :
            (/\ HasParseableCode(Catalog[j])
             /\ \E k \in 1..(j - 1) : NameOf(Catalog[k]) = NameOf(Catalog[j])
             /\ \A k \in 1..(j - 1) :
                    NameOf(Catalog[k]) = NameOf(Catalog[j]) => ~HasParseableCode(Catalog[k]))
                => \E i \in DOMAIN Ranking : MadeFrom(Ranking[i], Catalog[j])

====
